---- MODULE Spec2Model ----
(***************************************************************************)
(* A model of src/element/owned.rs of ion-rust: the owned Element / Value  *)
(* data model, the Struct container with its name index (Fields), and the  *)
(* two comparison relations, `==` (PartialEq) and ion_eq (IonEq).          *)
(*                                                                         *)
(* Encoding.  Option<T> is a sequence of length 0 (None) or 1 (Some).      *)
(* A Symbol is [text |-> Option<text>, sid |-> placeholder identity].      *)
(* A Value is [tag |-> variant, v |-> payload]; an Element is              *)
(* [annotations |-> Seq(Symbol), value |-> Value]; Fields is               *)
(* [by_index |-> Seq([name, value]), by_name |-> Seq([key, indexes])].     *)
(* Positions stored in an IndexVec are 0-based, as in the code.            *)
(***************************************************************************)
EXTENDS Integers, Sequences, FiniteSets, TLC

VARIABLES left, right, lhs, rhs, result

vars == <<left, right, lhs, rhs, result>>

(***************************************************************************)
(* Bounds of the model                                                     *)
(***************************************************************************)
MaxFields == 3
MaxDistinct == 2
MaxAnnotations == 2
MaxChildren == 2

(***************************************************************************)
(* Symbols                                                                 *)
(***************************************************************************)
None == <<>>

Some(x) == <<x>>

Symbol_owned(text) == [text |-> Some(text), sid |-> 0]

Symbol_unknown_text == [text |-> None, sid |-> 0]

Symbol_with_sid(sid) == [text |-> None, sid |-> sid]

Symbol_text(symbol) == symbol.text

\* Symbol's own equality: by text; symbols without text are equal to each other.
Symbol_eq(x, y) == Symbol_text(x) = Symbol_text(y)

\* Vec<Symbol> == Vec<Symbol>: same length and Symbol == at every position.
Annotations_eq(xs, ys) ==
    /\ Len(xs) = Len(ys)
    /\ \A i \in 1..Len(xs) : Symbol_eq(xs[i], ys[i])

(***************************************************************************)
(* Values and Elements                                                     *)
(***************************************************************************)
Value_Null == [tag |-> "Null", v |-> "Null"]

Value_Int(i) == [tag |-> "Int", v |-> i]

Value_Float(f) == [tag |-> "Float", v |-> f]

\* A Decimal is [coefficient, exponent]; a Timestamp is [instant, precision].
Value_Decimal(d) == [tag |-> "Decimal", v |-> d]

Value_Timestamp(t) == [tag |-> "Timestamp", v |-> t]

Value_List(children) == [tag |-> "List", v |-> children]

Value_SExp(children) == [tag |-> "SExp", v |-> children]

Value_Struct(fields) == [tag |-> "Struct", v |-> fields]

Element_new(annotations, value) == [annotations |-> annotations, value |-> value]

Element_from(value) == Element_new(<<>>, value)

\* IntoAnnotatedElement::with_annotations, on anything that converts into a Value
IntoAnnotatedElement_with_annotations(value, annotations) ==
    Element_new(annotations, value)

\* As with_annotations, but the annotations are added after those already there.
with_annotations_extending(element, annotations) ==
    Element_new(element.annotations \o annotations, element.value)

\* Element::with_annotations
with_annotations(element, annotations) == Element_new(annotations, element.value)

\* f64 `==`: IEEE comparison, NaN is unequal to everything, itself included.
Float_eq(f1, f2) == f1 # "NaN" /\ f2 # "NaN" /\ f1 = f2

\* f64 ion_eq: NaN is equivalent to NaN, otherwise IEEE comparison.
Float_ion_eq(f1, f2) == (f1 = "NaN" /\ f2 = "NaN") \/ Float_eq(f1, f2)

\* Decimal `==` and ion_eq: equality of the stored representation.
Decimal_eq(d1, d2) == d1.coefficient = d2.coefficient /\ d1.exponent = d2.exponent

Decimal_ion_eq(d1, d2) == d1.coefficient = d2.coefficient /\ d1.exponent = d2.exponent

\* Timestamp `==` and ion_eq: equality of the stored representation.
Timestamp_eq(t1, t2) == t1.instant = t2.instant /\ t1.precision = t2.precision

Timestamp_ion_eq(t1, t2) == t1.instant = t2.instant /\ t1.precision = t2.precision

(***************************************************************************)
(* Fields: the by_index / by_name pair of a Struct                         *)
(***************************************************************************)
Fields_empty == [by_index |-> <<>>, by_name |-> <<>>]

\* HashMap<Symbol, IndexVec>::get(&Symbol)
HashMap_get(by_name, symbol) ==
    LET hits == {i \in 1..Len(by_name) : Symbol_eq(by_name[i].key, symbol)}
    IN  IF hits = {} THEN None ELSE Some(by_name[CHOOSE i \in hits : TRUE].indexes)

\* HashMap<Symbol, IndexVec>::get(&str): only a key that carries this text matches.
HashMap_get_str(by_name, text) ==
    LET hits == {i \in 1..Len(by_name) : Symbol_text(by_name[i].key) = Some(text)}
    IN  IF hits = {} THEN None ELSE Some(by_name[CHOOSE i \in hits : TRUE].indexes)

\* As HashMap_entry_push, but an existing bucket is replaced, not extended.
HashMap_entry_push_overwrite(by_name, field_name, index) ==
    LET hits == {i \in 1..Len(by_name) : Symbol_eq(by_name[i].key, field_name)}
    IN  IF hits = {}
        THEN Append(by_name, [key |-> field_name, indexes |-> <<index>>])
        ELSE LET i == CHOOSE j \in hits : TRUE
             IN  [by_name EXCEPT ![i].indexes = <<index>>]

\* by_name.entry(field_name).or_insert_with(IndexVec::new).push(index)
HashMap_entry_push(by_name, field_name, index) ==
    LET hits == {i \in 1..Len(by_name) : Symbol_eq(by_name[i].key, field_name)}
    IN  IF hits = {}
        THEN Append(by_name, [key |-> field_name, indexes |-> <<index>>])
        ELSE LET i == CHOOSE j \in hits : TRUE
             IN  [by_name EXCEPT ![i].indexes = Append(@, index)]

\* As from_iter_step, but the position is taken after the push to by_index.
from_iter_step_off_by_one(fields, field_name, field_value) ==
    [by_index |-> Append(fields.by_index, [name |-> field_name, value |-> field_value]),
     by_name  |-> HashMap_entry_push(fields.by_name, field_name, Len(fields.by_index) + 1)]

\* One iteration of the loop of from_iter.
from_iter_step(fields, field_name, field_value) ==
    [by_index |-> Append(fields.by_index, [name |-> field_name, value |-> field_value]),
     by_name  |-> HashMap_entry_push(fields.by_name, field_name, Len(fields.by_index))]

RECURSIVE from_iter_loop(_, _)
from_iter_loop(fields, iter) ==
    IF iter = <<>> THEN fields
    ELSE from_iter_loop(from_iter_step(fields, iter[1].name, iter[1].value), Tail(iter))

from_iter(iter) == from_iter_loop(Fields_empty, iter)

\* As get_indexes, but the text of the key is ignored.
get_indexes_ignoring_text(fields, field_name) ==
    HashMap_get(fields.by_name, Symbol_unknown_text)

get_indexes(fields, field_name) ==
    IF Symbol_text(field_name) # None
    THEN HashMap_get_str(fields.by_name, Symbol_text(field_name)[1])
    ELSE HashMap_get(fields.by_name, Symbol_unknown_text)

\* FieldValuesIterator { current: 0, indexes, by_index }, run to its end: the values
\* of by_index at the positions of `indexes`, in the order of `indexes`.
FieldValuesIterator_collect(indexes, by_index) ==
    IF indexes = None THEN <<>>
    ELSE [k \in 1..Len(indexes[1]) |-> by_index[indexes[1][k] + 1].value]

get_values_at_indexes(fields, indexes) ==
    FieldValuesIterator_collect(Some(indexes), fields.by_index)

\* As get_last, but the first position of the bucket is taken.
get_last_first(fields, field_name) ==
    LET indexes == get_indexes(fields, field_name)
    IN  IF indexes = None THEN None
        ELSE IF indexes[1] = <<>> THEN None
        ELSE LET index == indexes[1][1]
             IN  IF index + 1 \in 1..Len(fields.by_index)
                 THEN Some(fields.by_index[index + 1].value)
                 ELSE None

get_last(fields, field_name) ==
    LET indexes == get_indexes(fields, field_name)
    IN  IF indexes = None THEN None
        ELSE IF indexes[1] = <<>> THEN None
        ELSE LET index == indexes[1][Len(indexes[1])]
             IN  IF index + 1 \in 1..Len(fields.by_index)
                 THEN Some(fields.by_index[index + 1].value)
                 ELSE None

get_all(fields, field_name) ==
    LET indexes == get_indexes(fields, field_name)
    IN  FieldValuesIterator_collect(indexes, fields.by_index)

Struct_get(fields, field_name) == get_last(fields, field_name)

Struct_get_all(fields, field_name) == get_all(fields, field_name)

Struct_len(fields) == Len(fields.by_index)

(***************************************************************************)
(* The two relations: `==` and ion_eq                                      *)
(***************************************************************************)
RECURSIVE Value_eq(_, _), Element_eq(_, _), Vec_eq(_, _), Struct_eq(_, _),
          fields_eq(_, _), Value_ion_eq(_, _), Element_ion_eq(_, _),
          Sequence_ion_eq(_, _)

\* #[derive(PartialEq)] on Vec<Element> (the children of List and SExp)
Vec_eq(xs, ys) ==
    /\ Len(xs) = Len(ys)
    /\ \A i \in 1..Len(xs) : Element_eq(xs[i], ys[i])

\* #[derive(PartialEq)] on Value
Value_eq(x, y) ==
    /\ x.tag = y.tag
    /\ CASE x.tag = "Null"   -> x.v = y.v
         [] x.tag = "Int"    -> x.v = y.v
         [] x.tag = "Float"  -> Float_eq(x.v, y.v)
         [] x.tag = "Decimal" -> Decimal_eq(x.v, y.v)
         [] x.tag = "Timestamp" -> Timestamp_eq(x.v, y.v)
         [] x.tag = "List"   -> Vec_eq(x.v, y.v)
         [] x.tag = "SExp"   -> Vec_eq(x.v, y.v)
         [] x.tag = "Struct" -> Struct_eq(x.v, y.v)

\* As Element_eq, but the annotations are not compared.
Element_eq_value_only(x, y) == Value_eq(x.value, y.value)

Element_eq(x, y) ==
    Value_eq(x.value, y.value) /\ Annotations_eq(x.annotations, y.annotations)

\* As fields_eq, but a counterpart is searched with `==`.
fields_eq_structural(this, that) ==
    \A e \in 1..Len(this.by_name) :
        LET field_name == this.by_name[e].key
            field_value_indexes == this.by_name[e].indexes
            found == get_indexes(that, field_name)
        IN  /\ found # None
            /\ Len(field_value_indexes) = Len(found[1])
            /\ LET mine == get_values_at_indexes(this, field_value_indexes)
                   theirs == get_values_at_indexes(that, found[1])
               IN  \A i \in 1..Len(mine) :
                       ~(\A j \in 1..Len(theirs) : ~Element_eq(mine[i], theirs[j]))

\* As fields_eq, but the values of a bucket are compared position by position.
fields_eq_positional(this, that) ==
    \A e \in 1..Len(this.by_name) :
        LET field_name == this.by_name[e].key
            field_value_indexes == this.by_name[e].indexes
            found == get_indexes(that, field_name)
        IN  /\ found # None
            /\ Len(field_value_indexes) = Len(found[1])
            /\ LET mine == get_values_at_indexes(this, field_value_indexes)
                   theirs == get_values_at_indexes(that, found[1])
               IN  \A i \in 1..Len(mine) : Element_ion_eq(mine[i], theirs[i])

fields_eq(this, that) ==
    \A e \in 1..Len(this.by_name) :
        LET field_name == this.by_name[e].key
            field_value_indexes == this.by_name[e].indexes
            found == get_indexes(that, field_name)
        IN  /\ found # None
            /\ Len(field_value_indexes) = Len(found[1])
            /\ LET mine == get_values_at_indexes(this, field_value_indexes)
                   theirs == get_values_at_indexes(that, found[1])
               IN  \A i \in 1..Len(mine) :
                       ~(\A j \in 1..Len(theirs) : ~Element_ion_eq(mine[i], theirs[j]))

\* As Struct_eq, but without the check in the reverse direction.
Struct_eq_one_way(this, that) ==
    /\ Struct_len(this) = Struct_len(that)
    /\ fields_eq(this, that)

Struct_eq(this, that) ==
    /\ Struct_len(this) = Struct_len(that)
    /\ fields_eq(this, that)
    /\ fields_eq(that, this)

\* As Sequence_ion_eq, but without the comparison of the lengths: the zip alone.
Sequence_ion_eq_zip_only(xs, ys) ==
    \A i \in 1..(IF Len(xs) < Len(ys) THEN Len(xs) ELSE Len(ys)) :
        Element_ion_eq(xs[i], ys[i])

\* impl<S: IonSequence> IonEq for S
Sequence_ion_eq(xs, ys) ==
    /\ Len(xs) = Len(ys)
    /\ \A i \in 1..Len(xs) : Element_ion_eq(xs[i], ys[i])

\* As Value_ion_eq, but without the arm for two floats.
Value_ion_eq_no_float_arm(x, y) ==
    IF x.tag = "Decimal" /\ y.tag = "Decimal" THEN Decimal_ion_eq(x.v, y.v)
    ELSE IF x.tag = "Timestamp" /\ y.tag = "Timestamp" THEN Timestamp_ion_eq(x.v, y.v)
    ELSE IF x.tag = "List" /\ y.tag = "List" THEN Sequence_ion_eq(x.v, y.v)
    ELSE IF x.tag = "SExp" /\ y.tag = "SExp" THEN Sequence_ion_eq(x.v, y.v)
    ELSE Value_eq(x, y)

\* As Value_ion_eq, but a List and an SExp are compared as sequences too.
Value_ion_eq_any_sequence(x, y) ==
    IF x.tag = "Float" /\ y.tag = "Float" THEN Float_ion_eq(x.v, y.v)
    ELSE IF x.tag = "Decimal" /\ y.tag = "Decimal" THEN Decimal_ion_eq(x.v, y.v)
    ELSE IF x.tag = "Timestamp" /\ y.tag = "Timestamp" THEN Timestamp_ion_eq(x.v, y.v)
    ELSE IF x.tag \in {"List", "SExp"} /\ y.tag \in {"List", "SExp"}
         THEN Sequence_ion_eq(x.v, y.v)
    ELSE Value_eq(x, y)

\* As Value_ion_eq, but without the arm for two lists.
Value_ion_eq_no_list_arm(x, y) ==
    IF x.tag = "Float" /\ y.tag = "Float" THEN Float_ion_eq(x.v, y.v)
    ELSE IF x.tag = "Decimal" /\ y.tag = "Decimal" THEN Decimal_ion_eq(x.v, y.v)
    ELSE IF x.tag = "Timestamp" /\ y.tag = "Timestamp" THEN Timestamp_ion_eq(x.v, y.v)
    ELSE IF x.tag = "SExp" /\ y.tag = "SExp" THEN Sequence_ion_eq(x.v, y.v)
    ELSE Value_eq(x, y)

Value_ion_eq(x, y) ==
    IF x.tag = "Float" /\ y.tag = "Float" THEN Float_ion_eq(x.v, y.v)
    ELSE IF x.tag = "Decimal" /\ y.tag = "Decimal" THEN Decimal_ion_eq(x.v, y.v)
    ELSE IF x.tag = "Timestamp" /\ y.tag = "Timestamp" THEN Timestamp_ion_eq(x.v, y.v)
    ELSE IF x.tag = "List" /\ y.tag = "List" THEN Sequence_ion_eq(x.v, y.v)
    ELSE IF x.tag = "SExp" /\ y.tag = "SExp" THEN Sequence_ion_eq(x.v, y.v)
    ELSE Value_eq(x, y)

\* As Element_ion_eq, but the annotations are not compared.
Element_ion_eq_value_only(x, y) == Value_ion_eq(x.value, y.value)

Element_ion_eq(x, y) ==
    Annotations_eq(x.annotations, y.annotations) /\ Value_ion_eq(x.value, y.value)

(***************************************************************************)
(* Inputs of the model                                                     *)
(***************************************************************************)
Int4 == Element_from(Value_Int(4))

Int5 == Element_from(Value_Int(5))

NaN == Element_from(Value_Float("NaN"))

AnnotatedInt4 == Element_new(<<Symbol_owned("a")>>, Value_Int(4))

ListOfNaN == Element_from(Value_List(<<NaN>>))

StructOfNaN ==
    Element_from(Value_Struct(from_iter(<<[name |-> Symbol_owned("a"), value |-> NaN]>>)))

Field(name, value) == [name |-> name, value |-> value]

\* Field names and values pushed by the lookup specification.
FieldNames ==
    {Symbol_owned("a"), Symbol_owned("b"), Symbol_with_sid(10), Symbol_with_sid(11)}

FieldValues == {Int4, Int5, NaN}

LookupKeys == FieldNames \cup {Symbol_unknown_text, Symbol_owned("c")}

\* Fields pushed by the struct comparison specification.
EqFields ==
    {Field(Symbol_owned("a"), Int4), Field(Symbol_owned("a"), AnnotatedInt4),
     Field(Symbol_owned("a"), NaN), Field(Symbol_owned("a"), ListOfNaN),
     Field(Symbol_owned("b"), Int4),
     Field(Symbol_with_sid(10), Int4), Field(Symbol_with_sid(11), Int4)}

\* Values, annotation symbols and annotation sequences of the element specification.
ElementValues ==
    {Value_Null, Value_Int(4), Value_Int(5), Value_Float("NaN"), Value_Float("1.5"),
     Value_List(<<NaN>>), Value_SExp(<<NaN>>), StructOfNaN.value}

AnnotationSymbols == {Symbol_owned("a"), Symbol_owned("b")}

AnnotationSeqs == UNION {[1..n -> AnnotationSymbols] : n \in 0..MaxAnnotations}

\* Decimal and Timestamp values of the nesting specification: 1.0, 1.00 and 2020T.
OpaqueValues ==
    {Value_Decimal([coefficient |-> 10, exponent |-> -1]),
     Value_Decimal([coefficient |-> 100, exponent |-> -2]),
     Value_Timestamp([instant |-> 2020, precision |-> "Year"])}

Sides == {"lhs", "rhs"}

\* Children and child sequences of the lists and s-expressions of the nesting
\* specification.
ChildElements == {Int4, NaN, ListOfNaN}

ChildSeqs == UNION {[1..n -> ChildElements] : n \in 0..MaxChildren}

\* The distinct (name, value) pairs held by the two structs together.
DistinctFields(l, r) ==
    {l.by_index[i] : i \in 1..Len(l.by_index)} \cup {r.by_index[i] : i \in 1..Len(r.by_index)}

NoResult == [op |-> "none", key |-> None, out |-> <<>>]

(***************************************************************************)
(* State machine                                                           *)
(***************************************************************************)
Init ==
    /\ left = Fields_empty
    /\ right = Fields_empty
    /\ lhs = Element_from(Value_Null)
    /\ rhs = Element_from(Value_Null)
    /\ result = NoResult

\* One iteration of from_iter building the struct `left`, any field.
Insert(field_name, field_value) ==
    /\ Struct_len(left) < MaxFields
    /\ left' = from_iter_step(left, field_name, field_value)
    /\ result' = NoResult
    /\ UNCHANGED <<right, lhs, rhs>>

\* One iteration of from_iter building the struct `left`, while the two structs
\* together hold at most MaxDistinct distinct fields.
PushLeft(field_name, field_value) ==
    /\ Struct_len(left) < MaxFields
    /\ left' = from_iter_step(left, field_name, field_value)
    /\ Cardinality(DistinctFields(left', right)) <= MaxDistinct
    /\ result' = NoResult
    /\ UNCHANGED <<right, lhs, rhs>>

\* The same for the struct `right`.
PushRight(field_name, field_value) ==
    /\ Struct_len(right) < MaxFields
    /\ right' = from_iter_step(right, field_name, field_value)
    /\ Cardinality(DistinctFields(left, right')) <= MaxDistinct
    /\ result' = NoResult
    /\ UNCHANGED <<left, lhs, rhs>>

\* left.get(field_name)
Get(field_name) ==
    /\ result' = [op |-> "get", key |-> Some(field_name), out |-> Struct_get(left, field_name)]
    /\ UNCHANGED <<left, right, lhs, rhs>>

\* left.get_all(field_name), collected
GetAll(field_name) ==
    /\ result' = [op |-> "get_all", key |-> Some(field_name),
                  out |-> Struct_get_all(left, field_name)]
    /\ UNCHANGED <<left, right, lhs, rhs>>

\* left == right and right == left
CompareStructs ==
    /\ result' = [op |-> "struct_eq", key |-> None,
                  out |-> <<Struct_eq(left, right), Struct_eq(right, left)>>]
    /\ UNCHANGED <<left, right, lhs, rhs>>

Next ==
    \/ \E n \in FieldNames, v \in FieldValues : Insert(n, v)
    \/ \E k \in LookupKeys : Get(k)
    \/ \E k \in LookupKeys : GetAll(k)

Spec == Init /\ [][Next]_vars

\* lhs or rhs becomes Element::from(value).
FromValue(side, value) ==
    /\ lhs' = IF side = "lhs" THEN Element_from(value) ELSE lhs
    /\ rhs' = IF side = "rhs" THEN Element_from(value) ELSE rhs
    /\ result' = NoResult
    /\ UNCHANGED <<left, right>>

\* lhs or rhs becomes value.with_annotations(annotations).
IntoAnnotated(side, value, annotations) ==
    /\ lhs' = IF side = "lhs"
              THEN IntoAnnotatedElement_with_annotations(value, annotations) ELSE lhs
    /\ rhs' = IF side = "rhs"
              THEN IntoAnnotatedElement_with_annotations(value, annotations) ELSE rhs
    /\ result' = NoResult
    /\ UNCHANGED <<left, right>>

\* lhs or rhs becomes itself.with_annotations(annotations).
WithAnnotations(side, annotations) ==
    /\ lhs' = IF side = "lhs" THEN with_annotations(lhs, annotations) ELSE lhs
    /\ rhs' = IF side = "rhs" THEN with_annotations(rhs, annotations) ELSE rhs
    /\ result' = NoResult
    /\ UNCHANGED <<left, right>>

\* lhs == rhs and lhs.ion_eq(rhs)
CompareElements ==
    /\ result' = [op |-> "element_cmp", key |-> None,
                  out |-> <<Element_eq(lhs, rhs), Element_ion_eq(lhs, rhs)>>]
    /\ UNCHANGED <<left, right, lhs, rhs>>

NextEq ==
    \/ \E f \in EqFields : PushLeft(f.name, f.value)
    \/ \E f \in EqFields : PushRight(f.name, f.value)
    \/ CompareStructs

SpecEq == Init /\ [][NextEq]_vars

\* lhs or rhs becomes the List with these children: List::new, From<List> for Value.
NewList(side, children) ==
    /\ lhs' = IF side = "lhs" THEN Element_from(Value_List(children)) ELSE lhs
    /\ rhs' = IF side = "rhs" THEN Element_from(Value_List(children)) ELSE rhs
    /\ result' = NoResult
    /\ UNCHANGED <<left, right>>

\* lhs or rhs becomes the SExp with these children: SExp::new, From<SExp> for Value.
NewSExp(side, children) ==
    /\ lhs' = IF side = "lhs" THEN Element_from(Value_SExp(children)) ELSE lhs
    /\ rhs' = IF side = "rhs" THEN Element_from(Value_SExp(children)) ELSE rhs
    /\ result' = NoResult
    /\ UNCHANGED <<left, right>>

\* lhs or rhs, not yet a struct, becomes the struct with the one field a: itself.
WrapInStruct(side) ==
    LET element == IF side = "lhs" THEN lhs ELSE rhs
        wrapped == Element_from(Value_Struct(from_iter(<<Field(Symbol_owned("a"), element)>>)))
    IN  /\ element.value.tag # "Struct"
        /\ lhs' = IF side = "lhs" THEN wrapped ELSE lhs
        /\ rhs' = IF side = "rhs" THEN wrapped ELSE rhs
        /\ result' = NoResult
        /\ UNCHANGED <<left, right>>

\* lhs.value() == rhs.value() and lhs.value().ion_eq(rhs.value())
CompareValues ==
    /\ result' = [op |-> "value_cmp", key |-> None,
                  out |-> <<Value_eq(lhs.value, rhs.value), Value_ion_eq(lhs.value, rhs.value)>>]
    /\ UNCHANGED <<left, right, lhs, rhs>>

NextElem ==
    \/ \E side \in Sides, v \in ElementValues : FromValue(side, v)
    \/ \E side \in Sides, v \in ElementValues, a \in AnnotationSeqs :
           IntoAnnotated(side, v, a)
    \/ \E side \in Sides, a \in AnnotationSeqs : WithAnnotations(side, a)
    \/ CompareElements

SpecElem == Init /\ [][NextElem]_vars

\* lhs becomes lhs.with_annotations(annotations); the element it was is kept in
\* the result.
Reannotate(annotations) ==
    /\ lhs' = with_annotations(lhs, annotations)
    /\ result' = [op |-> "with_annotations", key |-> None, out |-> <<lhs, annotations>>]
    /\ UNCHANGED <<left, right, rhs>>

NextAnnot ==
    \/ \E v \in ElementValues : FromValue("lhs", v)
    \/ \E v \in ElementValues, a \in AnnotationSeqs : IntoAnnotated("lhs", v, a)
    \/ \E a \in AnnotationSeqs : Reannotate(a)

SpecAnnot == Init /\ [][NextAnnot]_vars

NextNest ==
    \/ \E side \in Sides, v \in ElementValues \cup OpaqueValues : FromValue(side, v)
    \/ \E side \in Sides, children \in ChildSeqs : NewList(side, children)
    \/ \E side \in Sides, children \in ChildSeqs : NewSExp(side, children)
    \/ \E side \in Sides : WrapInStruct(side)
    \/ CompareValues
    \/ CompareElements

SpecNest == Init /\ [][NextNest]_vars

(***************************************************************************)
(* Reference notions, taken from by_index alone                            *)
(***************************************************************************)
\* The positions (1-based) of the fields whose name equals `name`.
PositionsOf(fields, name) ==
    {i \in 1..Len(fields.by_index) : Symbol_eq(fields.by_index[i].name, name)}

\* The names that occur in either struct.
NamesOf(l, r) ==
    {l.by_index[i].name : i \in 1..Len(l.by_index)}
        \cup {r.by_index[i].name : i \in 1..Len(r.by_index)}

\* The values that occur in either struct.
ValuesOf(l, r) ==
    {l.by_index[i].value : i \in 1..Len(l.by_index)}
        \cup {r.by_index[i].value : i \in 1..Len(r.by_index)}

\* Every value under `name` in `l` has a counterpart under `name` in `r`: `==`.
ContainedEq(l, r, name) ==
    \A i \in PositionsOf(l, name) : \E j \in PositionsOf(r, name) :
        Element_eq(l.by_index[i].value, r.by_index[j].value)

\* Every value under `name` in `l` has a counterpart under `name` in `r`: ion_eq.
ContainedIonEq(l, r, name) ==
    \A i \in PositionsOf(l, name) : \E j \in PositionsOf(r, name) :
        Element_ion_eq(l.by_index[i].value, r.by_index[j].value)

\* The number of fields of `fields` with this name and a value equivalent to `v`.
Multiplicity(fields, name, v) ==
    Cardinality({i \in PositionsOf(fields, name) : Element_ion_eq(fields.by_index[i].value, v)})

\* `ys` holds the entries of `xs` in some other order.
IsPermutation(xs, ys) ==
    /\ Len(xs) = Len(ys)
    /\ \A i \in 1..Len(xs) :
           Cardinality({j \in 1..Len(xs) : xs[j] = xs[i]})
               = Cardinality({j \in 1..Len(ys) : ys[j] = xs[i]})

StructsCompared == result.op = "struct_eq"

HasValue(fields, v) == \E i \in 1..Len(fields.by_index) : fields.by_index[i].value = v

(***************************************************************************)
(* Struct `==`                                                             *)
(***************************************************************************)
\* C1 (as stated): left == right is true exactly when the structs have the same
\* number of fields and, for every name in either, every value of one bucket has
\* a counterpart under Element `==` in the other's bucket, in both directions.
C1_StructEqIsContainmentUnderEq ==
    StructsCompared =>
        (result.out[1] <=>
            /\ Len(left.by_index) = Len(right.by_index)
            /\ \A name \in NamesOf(left, right) :
                   ContainedEq(left, right, name) /\ ContainedEq(right, left, name))

\* C1 (amended): left == right is true exactly when the structs have the same
\* number of fields and, for every name in either, the two buckets of that name
\* have the same size and every value of one bucket has an ion_eq counterpart in
\* the other's bucket, in both directions.
C1_StructEqIsContainmentUnderIonEq ==
    StructsCompared =>
        (result.out[1] <=>
            /\ Len(left.by_index) = Len(right.by_index)
            /\ \A name \in NamesOf(left, right) :
                   /\ Cardinality(PositionsOf(left, name))
                          = Cardinality(PositionsOf(right, name))
                   /\ ContainedIonEq(left, right, name)
                   /\ ContainedIonEq(right, left, name))

\* Two structs found equal that hold a NaN field and a second field.
C1_Witness ==
    /\ StructsCompared
    /\ result.out[1]
    /\ Len(left.by_index) >= 2
    /\ HasValue(left, NaN)
    /\ left.by_index # right.by_index

\* C2: left == right only if, for every name and every value v, both structs have
\* the same number of fields with that name and a value equivalent to v.
C2_StructEqMatchesMultiplicities ==
    (StructsCompared /\ result.out[1]) =>
        \A name \in NamesOf(left, right), v \in ValuesOf(left, right) :
            Multiplicity(left, name, v) = Multiplicity(right, name, v)

\* C3: left == right and right == left give the same result; and for
\* left = {a:4, a:4}, right = {a:4, a:a::4} both are false although
\* fields_eq(left, right) passes.
C3_StructEqSymmetric ==
    StructsCompared =>
        /\ result.out[1] = result.out[2]
        /\ (/\ left.by_index = <<Field(Symbol_owned("a"), Int4), Field(Symbol_owned("a"), Int4)>>
            /\ right.by_index = <<Field(Symbol_owned("a"), Int4),
                                  Field(Symbol_owned("a"), AnnotatedInt4)>>)
               => /\ result.out = <<FALSE, FALSE>>
                  /\ fields_eq(left, right)
                  /\ ~fields_eq(right, left)

\* {a:4, a:4} has been compared with {a:4, a:a::4}.
C3_Witness ==
    /\ StructsCompared
    /\ left.by_index = <<Field(Symbol_owned("a"), Int4), Field(Symbol_owned("a"), Int4)>>
    /\ right.by_index = <<Field(Symbol_owned("a"), Int4), Field(Symbol_owned("a"), AnnotatedInt4)>>

\* C4: a struct built from a permutation of the field sequence of another is
\* `==` to it.
C4_StructEqIgnoresOrder ==
    (StructsCompared /\ IsPermutation(left.by_index, right.by_index)) =>
        (result.out[1] /\ result.out[2])

\* Two structs compared whose field sequences differ only in order, over two names.
C4_Witness ==
    /\ StructsCompared
    /\ IsPermutation(left.by_index, right.by_index)
    /\ left.by_index # right.by_index
    /\ Cardinality({left.by_index[i].name.text : i \in 1..Len(left.by_index)}) = 2
    /\ result.out[1]

(***************************************************************************)
(* Struct construction and lookup                                          *)
(***************************************************************************)
\* The values of the fields whose name equals `name`, in insertion order.
ValuesNamed(fields, name) ==
    LET positions == SelectSeq([i \in 1..Len(fields.by_index) |-> i],
                               LAMBDA i : Symbol_eq(fields.by_index[i].name, name))
    IN  [k \in 1..Len(positions) |-> fields.by_index[positions[k]].value]

\* The positions (1-based) that a lookup of `key` in `fields` resolves to.
LookupPositions(fields, key) ==
    LET found == get_indexes(fields, key)
    IN  IF found = None THEN {} ELSE {found[1][k] + 1 : k \in 1..Len(found[1])}

\* by_name is a complete and consistent index over by_index.
IndexConsistent(fields) ==
    /\ \A pos \in 0..(Len(fields.by_index) - 1) :
           Cardinality(UNION {{<<e, k>> : k \in {j \in 1..Len(fields.by_name[e].indexes) :
                                                      fields.by_name[e].indexes[j] = pos}} :
                              e \in 1..Len(fields.by_name)}) = 1
    /\ \A e \in 1..Len(fields.by_name) :
           LET indexes == fields.by_name[e].indexes
           IN  /\ \A k \in 1..Len(indexes) :
                      /\ indexes[k] \in 0..(Len(fields.by_index) - 1)
                      /\ Symbol_eq(fields.by_index[indexes[k] + 1].name, fields.by_name[e].key)
               /\ \A k \in 1..(Len(indexes) - 1) : indexes[k] < indexes[k + 1]

\* C6: get(name) returns the value of the last pair, in insertion order, whose
\* name matches, and is absent exactly when no pair has that name.
C6_GetReturnsLastOccurrence ==
    result.op = "get" =>
        LET values == ValuesNamed(left, result.key[1])
        IN  /\ (result.out = None) <=> (values = <<>>)
            /\ values # <<>> => result.out = Some(values[Len(values)])

\* get on a name that occurs twice, with two different values.
C6_Witness ==
    /\ result.op = "get"
    /\ Len(ValuesNamed(left, result.key[1])) >= 2
    /\ ValuesNamed(left, result.key[1])[1] # result.out[1]

\* C7: get_all(name) yields exactly the values of the pairs whose name matches,
\* once per occurrence, in insertion order, and nothing when no pair matches.
C7_GetAllReturnsOccurrencesInOrder ==
    result.op = "get_all" => result.out = ValuesNamed(left, result.key[1])

\* get_all on a name that occurs twice with the same value, around another field.
C7_Witness ==
    /\ result.op = "get_all"
    /\ Len(left.by_index) = 3
    /\ Len(result.out) = 2
    /\ result.out[1] = result.out[2]
    /\ ~Symbol_eq(left.by_index[2].name, result.key[1])

\* C8: after every insertion step by_name is a complete and consistent index
\* over by_index: every position is in exactly one bucket, exactly once, each
\* bucket is increasing, and a bucket's positions hold fields of its name.
C8_ByNameIndexesByIndex == IndexConsistent(left) /\ IndexConsistent(right)

\* Three fields inserted under two names.
C8_Witness ==
    /\ Len(left.by_index) = 3
    /\ Len(left.by_name) = 2

\* C9: a lookup key with text never resolves to a field whose name has no text,
\* a key without text never resolves to a field whose name has text, and a key
\* without text resolves to all the fields whose name has no text.
C9_LookupSeparatesTextFromNoText ==
    result.op \in {"get", "get_all"} =>
        LET key == result.key[1]
            positions == LookupPositions(left, key)
            no_text == {i \in 1..Len(left.by_index) :
                            Symbol_text(left.by_index[i].name) = None}
        IN  /\ Symbol_text(key) # None => positions \cap no_text = {}
            /\ Symbol_text(key) = None => positions = no_text
            /\ result.op = "get_all" => Len(result.out) = Cardinality(positions)
            /\ result.op = "get" => Len(result.out) = (IF positions = {} THEN 0 ELSE 1)

\* get_all with the no-text key on a struct with two no-text names of different
\* identity and one text name.
C9_Witness ==
    /\ result.op = "get_all"
    /\ result.key[1] = Symbol_unknown_text
    /\ Len(result.out) = 2
    /\ Len(left.by_index) = 3
    /\ Cardinality({left.by_index[i].name : i \in 1..3}) = 3

(***************************************************************************)
(* Element `==` and ion_eq                                                 *)
(***************************************************************************)
ElementsCompared == result.op = "element_cmp"

\* C5: for the un-annotated NaN float element e, e.ion_eq(e) is true and e == e
\* is false.
C5_NaNIonEqButNotEq ==
    (ElementsCompared /\ lhs = NaN /\ rhs = NaN) => result.out = <<FALSE, TRUE>>

\* The un-annotated NaN element has been compared with itself.
C5_Witness == ElementsCompared /\ lhs = NaN /\ rhs = NaN

\* C10: two Elements are `==` iff their annotation sequences are the same
\* ordered sequence and their Values are `==`.
C10_ElementEqIsAnnotationsAndValue ==
    ElementsCompared =>
        (result.out[1] <=>
            /\ Len(lhs.annotations) = Len(rhs.annotations)
            /\ \A i \in 1..Len(lhs.annotations) :
                   Symbol_text(lhs.annotations[i]) = Symbol_text(rhs.annotations[i])
            /\ Value_eq(lhs.value, rhs.value))

\* The same Int value compared with and without the annotation a: not `==`.
C10_Witness ==
    /\ ElementsCompared
    /\ lhs = AnnotatedInt4
    /\ rhs = Int4
    /\ ~result.out[1]

(***************************************************************************)
(* ion_eq of containers and of Values                                      *)
(***************************************************************************)
ValuesCompared == result.op = "value_cmp"

IsSequence(value) == value.tag \in {"List", "SExp"}

\* C11: two Lists (two SExps) are ion_eq iff they have the same length and their
\* children are ion_eq as Elements at every position; so a list that holds a
\* NaN float is ion_eq to an identical list although the two are not `==`.
C11_SequenceIonEqIsPositionwise ==
    (ValuesCompared /\ IsSequence(lhs.value) /\ lhs.value.tag = rhs.value.tag) =>
        /\ result.out[2] <=>
               /\ Len(lhs.value.v) = Len(rhs.value.v)
               /\ \A i \in 1..Len(lhs.value.v) :
                      Element_ion_eq(lhs.value.v[i], rhs.value.v[i])
        /\ (lhs.value.v = rhs.value.v /\ \E i \in 1..Len(lhs.value.v) : lhs.value.v[i] = NaN)
               => result.out = <<FALSE, TRUE>>

\* A list of two children, one of them NaN, compared with an identical list.
C11_Witness ==
    /\ ValuesCompared
    /\ lhs.value.tag = "List"
    /\ lhs = rhs
    /\ Len(lhs.value.v) = 2
    /\ lhs.value.v[2] = NaN
    /\ result.out = <<FALSE, TRUE>>

\* C12: two Elements are ion_eq iff their annotation sequences are the same
\* ordered sequence and their Values are ion_eq; ion_eq values under annotations
\* that differ in content, order or count are not ion_eq.
C12_ElementIonEqIsAnnotationsAndValue ==
    ElementsCompared =>
        (result.out[2] <=>
            /\ Len(lhs.annotations) = Len(rhs.annotations)
            /\ \A i \in 1..Len(lhs.annotations) :
                   Symbol_text(lhs.annotations[i]) = Symbol_text(rhs.annotations[i])
            /\ Value_ion_eq(lhs.value, rhs.value))

\* Two NaN elements whose annotations are a, b and b, a: not ion_eq.
C12_Witness ==
    /\ ElementsCompared
    /\ lhs = Element_new(<<Symbol_owned("a"), Symbol_owned("b")>>, Value_Float("NaN"))
    /\ rhs = Element_new(<<Symbol_owned("b"), Symbol_owned("a")>>, Value_Float("NaN"))
    /\ ~result.out[2]

\* The variants for which Value::ion_eq has a rule of its own.
BespokeTags == {"Float", "Decimal", "Timestamp", "List", "SExp"}

\* C14: Value::ion_eq gives the result of `==` for every pair of Values that are
\* not both Float, both Decimal, both Timestamp, both List or both SExp: for
\* every pair of Structs, and for every pair of different variants, which is
\* never equivalent.
C14_ValueIonEqFallsBackToEq ==
    ValuesCompared =>
        /\ ~(lhs.value.tag = rhs.value.tag /\ lhs.value.tag \in BespokeTags)
               => result.out[2] = result.out[1]
        /\ lhs.value.tag # rhs.value.tag => result.out = <<FALSE, FALSE>>

\* A List and an SExp with the same, non-empty children: not equivalent.
C14_Witness ==
    /\ ValuesCompared
    /\ lhs.value.tag = "List"
    /\ rhs.value.tag = "SExp"
    /\ lhs.value.v = rhs.value.v
    /\ lhs.value.v # <<>>
    /\ result.out = <<FALSE, FALSE>>

\* C15: ion_eq is reflexive: every Element, at any nesting of List, SExp and
\* Struct and with NaN floats as list children or struct field values, is
\* ion_eq to itself.
C15_IonEqReflexive == (ElementsCompared /\ lhs = rhs) => result.out[2]

\* A struct whose field holds a list of NaN and of a list of NaN, compared with
\* itself.
C15_Witness ==
    /\ ElementsCompared
    /\ lhs = rhs
    /\ lhs.value.tag = "Struct"
    /\ lhs.value.v.by_index[1].value = Element_from(Value_List(<<NaN, ListOfNaN>>))
    /\ result.out[2]

(***************************************************************************)
(* Element::with_annotations                                               *)
(***************************************************************************)
\* C16: e.with_annotations(A) has exactly the annotations A, in the given order,
\* and the Value of e, whatever annotations e carried; so with_annotations(A)
\* followed by with_annotations(B) leaves only B.
C16_WithAnnotationsReplaces ==
    result.op = "with_annotations" =>
        /\ lhs.annotations = result.out[2]
        /\ lhs.value = result.out[1].value

\* An element annotated a, b has been given the annotations b, a.
C16_Witness ==
    /\ result.op = "with_annotations"
    /\ result.out[1].annotations = <<Symbol_owned("a"), Symbol_owned("b")>>
    /\ result.out[2] = <<Symbol_owned("b"), Symbol_owned("a")>>
    /\ lhs.annotations = <<Symbol_owned("b"), Symbol_owned("a")>>

====
